---- MODULE Spec2Model ----
(***************************************************************************)
(* Model of login.py: the batch orchestrator main(), the descriptor parser *)
(* build_accounts_from_env(), the per-account session                      *)
(* login_then_flow_one_account() with its helpers, and the notifier        *)
(* tg_send().  Text is a sequence of one-character strings, so that        *)
(* strip(), split(",") and the href pattern are computed, not assumed.     *)
(* Every browser call is an input: it returns, times out or raises.        *)
(***************************************************************************)
EXTENDS Integers, Sequences, FiniteSets, TLC

VARIABLES
    env,              \* ACCOUNTS_BATCH: [set |-> BOOLEAN, lines |-> Seq(text)]
    pc,               \* position of the single thread of control
    accounts,         \* main.accounts
    cfgError,         \* the RuntimeError of build_accounts_from_env: [kind, line]
    display,          \* main.display: "unset", "none" (None), "up", "stopped"
    i,                \* main.i, the 1-based index of the current account
    ok,               \* main.ok
    fail,             \* main.fail
    logout_ok_count,  \* main.logout_ok_count
    tg_dests,         \* main.tg_dests
    browser,          \* number of live SB() browser sessions
    s,                \* locals of the running session
    ret,              \* what the session handed to main: a tuple or an exception
    obs,              \* what the browser did and was asked to do in this session
    msg,              \* main.msg, the message built for the current account
    reports,          \* the messages printed so far, in order: [acct, kind]
    log,              \* the requests.post calls made by tg_send so far, in order
    pending,          \* summary destinations still to be served, in sorted order
    slept             \* cooldown pauses issued so far: <<account, units>>

vars == <<env, pc, accounts, cfgError, display, i, ok, fail, logout_ok_count,
          tg_dests, browser, s, ret, obs, msg, reports, log, pending, slept>>

-----------------------------------------------------------------------------
(* Bounds of the model. *)

MaxLines == 2

-----------------------------------------------------------------------------
(* Text: str.strip(), str.split(","), str.startswith("#"). *)

None == <<"None">>

IsWs(c) == c = " "

RECURSIVE LStrip(_)
LStrip(t) == IF t # <<>> /\ IsWs(Head(t)) THEN LStrip(Tail(t)) ELSE t

RECURSIVE RStrip(_)
RStrip(t) ==
    IF t # <<>> /\ IsWs(t[Len(t)]) THEN RStrip(SubSeq(t, 1, Len(t) - 1)) ELSE t

Strip(t) == RStrip(LStrip(t))

\* The fields of t between commas: "a,,b" gives three, "" gives one empty field.
RECURSIVE SplitComma(_)
SplitComma(t) ==
    IF \E k \in 1..Len(t) : t[k] = ","
    THEN LET k == CHOOSE k \in 1..Len(t) :
                      t[k] = "," /\ \A j \in 1..(k - 1) : t[j] # ","
         IN  <<SubSeq(t, 1, k - 1)>> \o SplitComma(SubSeq(t, k + 1, Len(t)))
    ELSE <<t>>

StartsWithHash(t) == t # <<>> /\ Head(t) = "#"

\* batch.strip().splitlines() on a descriptor given as its lines: the blank
\* lines at either end go, the first line loses its leading blanks and the
\* last line its trailing blanks.
RECURSIVE DropLeadingBlank(_)
DropLeadingBlank(ls) ==
    IF ls # <<>> /\ Strip(Head(ls)) = <<>> THEN DropLeadingBlank(Tail(ls)) ELSE ls

RECURSIVE DropTrailingBlank(_)
DropTrailingBlank(ls) ==
    IF ls # <<>> /\ Strip(ls[Len(ls)]) = <<>>
    THEN DropTrailingBlank(SubSeq(ls, 1, Len(ls) - 1))
    ELSE ls

StripBatch(ls) ==
    LET body == DropTrailingBlank(DropLeadingBlank(ls)) IN
    [k \in 1..Len(body) |->
        LET a == IF k = 1 THEN LStrip(body[k]) ELSE body[k]
        IN  IF k = Len(body) THEN RStrip(a) ELSE a]

-----------------------------------------------------------------------------
(* build_accounts_from_env *)

NoError == [kind |-> "none", line |-> 0]

Account(parts) ==
    [email    |-> parts[1],
     password |-> parts[2],
     tg_token |-> IF Len(parts) = 4 THEN parts[3] ELSE <<>>,
     tg_chat  |-> IF Len(parts) = 4 THEN parts[4] ELSE <<>>]

\* A parser that lets a line of three fields through.
BadFieldCountLax(n) == n \notin {2, 3, 4}

\* len(parts) not in (2, 4)
BadFieldCount(n) == n \notin {2, 4}

\* The loop over enumerate(batch.splitlines(), start=1), from line idx on.
RECURSIVE ScanLines(_, _, _)
ScanLines(lines, idx, acc) ==
    IF idx > Len(lines)
    THEN [err |-> NoError, accounts |-> acc]
    ELSE LET line  == Strip(lines[idx])
             parts == [k \in 1..Len(SplitComma(line)) |-> Strip(SplitComma(line)[k])]
         IN  IF line = <<>> \/ StartsWithHash(line)
             THEN ScanLines(lines, idx + 1, acc)
             ELSE IF BadFieldCount(Len(parts))
             THEN [err |-> [kind |-> "format", line |-> idx], accounts |-> <<>>]
             ELSE IF parts[1] = <<>> \/ parts[2] = <<>>
             THEN [err |-> [kind |-> "empty_field", line |-> idx], accounts |-> <<>>]
             ELSE ScanLines(lines, idx + 1, Append(acc, Account(parts)))

build_accounts_from_env(e) ==
    LET batch == IF e.set THEN StripBatch(e.lines) ELSE <<>> IN
    IF batch = <<>>
    THEN [err |-> [kind |-> "missing", line |-> 0], accounts |-> <<>>]
    ELSE LET r == ScanLines(batch, 1, <<>>) IN
         IF r.err.kind = "none" /\ r.accounts = <<>>
         THEN [err |-> [kind |-> "no_accounts", line |-> 0], accounts |-> <<>>]
         ELSE r

-----------------------------------------------------------------------------
(* The descriptors the model is run on. *)

Line2      == <<" ", "a", " ", ",", " ", "p">>             \* " a , p"
Line4      == <<"b", ",", "p", ",", "t", ",", "9">>        \* "b,p,t,9"
Line4Other == <<"c", ",", "p", ",", "u", ",", "9">>        \* "c,p,u,9"
Line4Half  == <<"d", ",", "p", ",", " ", ",", "9">>        \* "d,p, ,9"
LineBlank  == <<" ">>
LineNote   == <<" ", "#", "a", ",", "p">>                  \* " #a,p"
Line3      == <<"a", ",", "p", ",", "t">>                  \* "a,p,t"
Line5      == <<"a", ",", "p", ",", "t", ",", "9", ",", "x">>
Line1      == <<"a">>
LineNoMail == <<" ", ",", "p">>                            \* " ,p"
LineNoPass == <<"a", ",", " ", ",", "t", ",", "9">>        \* "a, ,t,9"

Lines == {Line2, Line4, Line4Other, Line4Half, LineBlank, LineNote,
          Line3, Line5, Line1, LineNoMail, LineNoPass}

Descriptors ==
    UNION {[1..n -> Lines] : n \in 0..MaxLines}

-----------------------------------------------------------------------------
(* Text the browser hands back: str.lower() and the "in" substring test. *)

LowerChar(c) ==
    CASE c = "W" -> "w"
      [] c = "B" -> "b"
      [] c = "H" -> "h"
      [] c = "L" -> "l"
      [] OTHER   -> c

Lower(t) == [k \in 1..Len(t) |-> LowerChar(t[k])]

Contains(t, m) ==
    \E k \in 1..(Len(t) - Len(m) + 1) : SubSeq(t, k, k + Len(m) - 1) = m

WelcomeMarker == <<"w", "e", "l", "c", "o", "m", "e", " ", "b", "a", "c", "k">>
LoginMarker   == <<"/", "l", "o", "g", "i", "n">>

TextWelcome == <<" ", "W", "e", "l", "c", "o", "m", "e", " ", "B", "a", "c", "k">>
TextOther   == <<"H", "i", " ">>
Texts       == {TextWelcome, TextOther}

UrlLogin == <<"h", "/", "L", "o", "g", "i", "n", "?">>
UrlHome  == <<"h", "/">>
Urls     == {UrlLogin, UrlHome}

Raise == <<"raise">>      \* the call raised instead of returning

-----------------------------------------------------------------------------
(* _extract_server_id_from_href: re.search(r"/servers/(\d+)", href) *)

ServersPrefix == <<"/", "s", "e", "r", "v", "e", "r", "s", "/">>

IsDigit(c) == c \in {"0", "1", "2", "3", "4", "5", "6", "7", "8", "9"}

RECURSIVE TakeDigits(_)
TakeDigits(t) ==
    IF t # <<>> /\ IsDigit(Head(t)) THEN <<Head(t)>> \o TakeDigits(Tail(t)) ELSE <<>>

MatchesAt(href, k) ==
    /\ k + Len(ServersPrefix) <= Len(href)
    /\ SubSeq(href, k, k + Len(ServersPrefix) - 1) = ServersPrefix
    /\ IsDigit(href[k + Len(ServersPrefix)])

_extract_server_id_from_href(href) ==
    IF href = <<>> \/ ~ \E k \in 1..Len(href) : MatchesAt(href, k)
    THEN None
    ELSE LET k == CHOOSE k \in 1..Len(href) :
                      MatchesAt(href, k) /\ \A j \in 1..(k - 1) : ~ MatchesAt(href, j)
         IN  TakeDigits(SubSeq(href, k + Len(ServersPrefix), Len(href)))

HrefRelative == <<"/", "s", "e", "r", "v", "e", "r", "s", "/", "6", "3">>
HrefAbsolute == <<"h", "/", "s", "e", "r", "v", "e", "r", "s", "/", "6", "3", "?">>
HrefNoDigits == <<"/", "s", "e", "r", "v", "e", "r", "s", "/", "x">>
Hrefs        == {HrefRelative, HrefAbsolute, HrefNoDigits}

-----------------------------------------------------------------------------
(* Program constants. *)

PollBudget == 10      \* for _ in range(10)
Cooldown   == 5       \* time.sleep(5)

-----------------------------------------------------------------------------
(* Initial state: the environment holds some descriptor, nothing has run. *)

NoLocals == [logged_in |-> FALSE, welcome_text |-> None, polls |-> 0,
             server_id |-> None, logout_ok |-> FALSE, stay |-> 0, tag |-> ""]

NoReturn == [kind |-> "none", status |-> "", welcome_text |-> None,
             server_id |-> None, logout_ok |-> FALSE, error |-> ""]

NoObs == [formReady |-> "unknown", typed |-> 0, submits |-> 0, captcha |-> 0,
          seen |-> FALSE, raised |-> {}, asked |-> {},
          clickPath |-> "none", direct |-> "none", homeVisits |-> 0,
          logoutClicks |-> 0, verify |-> "none", shots |-> <<>>]

NoMessage == [acct |-> 0, kind |-> "none", logout |-> FALSE, error |-> ""]

Init ==
    /\ env \in {[set |-> FALSE, lines |-> <<>>]}
               \cup {[set |-> TRUE, lines |-> d] : d \in Descriptors}
    /\ pc = "start"
    /\ accounts = <<>>
    /\ cfgError = NoError
    /\ display = "unset"
    /\ i = 0
    /\ ok = 0
    /\ fail = 0
    /\ logout_ok_count = 0
    /\ tg_dests = {}
    /\ browser = 0
    /\ s = NoLocals
    /\ ret = NoReturn
    /\ obs = NoObs
    /\ msg = NoMessage
    /\ reports = <<>>
    /\ log = <<>>
    /\ pending = <<>>
    /\ slept = <<>>

mainVars == <<env, accounts, cfgError, display, i, ok, fail, logout_ok_count,
              tg_dests, msg, reports, log, pending, slept>>

-----------------------------------------------------------------------------
(* main(), up to the call of the session. *)

\* accounts = build_accounts_from_env(): a RuntimeError leaves main at once.
Parse ==
    /\ pc = "start"
    /\ LET r == build_accounts_from_env(env) IN
       /\ accounts' = r.accounts
       /\ cfgError' = r.err
       /\ pc' = IF r.err.kind = "none" THEN "xvfb" ELSE "config_error"
    /\ UNCHANGED <<env, display, i, ok, fail, logout_ok_count, tg_dests, browser,
                   s, ret, obs, msg, reports, log, pending, slept>>

\* display = setup_xvfb(): started on a Linux host without DISPLAY.
SetupXvfb ==
    /\ pc = "xvfb"
    /\ \E headless \in BOOLEAN : display' = IF headless THEN "up" ELSE "none"
    /\ pc' = "loop"
    /\ UNCHANGED <<env, accounts, cfgError, i, ok, fail, logout_ok_count, tg_dests,
                   browser, s, ret, obs, msg, reports, log, pending, slept>>

\* A destination set keyed by the chat id alone.
AddDestByChat(dests, acc) ==
    IF /\ Strip(acc.tg_token) # <<>>
       /\ Strip(acc.tg_chat) # <<>>
       /\ ~ \E d \in dests : d[2] = Strip(acc.tg_chat)
    THEN dests \cup {<<Strip(acc.tg_token), Strip(acc.tg_chat)>>}
    ELSE dests

\* if tg_token and tg_chat: tg_dests.add((tg_token, tg_chat))
AddDest(dests, acc) ==
    IF Strip(acc.tg_token) # <<>> /\ Strip(acc.tg_chat) # <<>>
    THEN dests \cup {<<Strip(acc.tg_token), Strip(acc.tg_chat)>>}
    ELSE dests

\* A loop that stays on the account it has just handled.
SameIndex(k) == IF k = 0 THEN 1 ELSE k

\* enumerate(accounts, start=1): the index of the next iteration.
NextIndex(k) == k + 1

\* The head of one iteration of the for loop, up to the call of the session.
LoopHead ==
    /\ pc = "loop"
    /\ i < Len(accounts)
    /\ i' = NextIndex(i)
    /\ tg_dests' = AddDest(tg_dests, accounts[NextIndex(i)])
    /\ pc' = "launch"
    /\ UNCHANGED <<env, accounts, cfgError, display, ok, fail, logout_ok_count,
                   browser, s, ret, obs, msg, reports, log, pending, slept>>

-----------------------------------------------------------------------------
(* login_then_flow_one_account: how a step ends. *)

\* A with block that leaves its browser running.
KeptOpen(b) == b

\* SB.__exit__ at the end of the with block: the browser it acquired is quit,
\* whether the block is left by a return or by an exception.
Released(b) == IF b > 0 THEN b - 1 ELSE 0

\* The step went through: the session moves on.
Goes(to, locals, seenObs) ==
    /\ pc' = to
    /\ s' = locals
    /\ obs' = seenObs
    /\ UNCHANGED <<ret, browser, mainVars>>

\* An exception leaves the with block: the browser is released on the way out
\* and the exception reaches main's except clause.
Raises(text, seenObs) ==
    /\ pc' = "except"
    /\ ret' = [NoReturn EXCEPT !.kind = "exc", !.error = text]
    /\ browser' = Released(browser)
    /\ obs' = seenObs
    /\ UNCHANGED <<s, mainVars>>

\* return status, welcome_text, has_cf, current_url, server_id, logout_ok
Returns(status, welcome_text, server_id, logout_ok, locals, seenObs) ==
    /\ pc' = "returned"
    /\ ret' = [kind |-> "tuple", status |-> status, welcome_text |-> welcome_text,
               server_id |-> server_id, logout_ok |-> logout_ok, error |-> ""]
    /\ browser' = Released(browser)
    /\ s' = locals
    /\ obs' = seenObs
    /\ UNCHANGED mainVars

-----------------------------------------------------------------------------
(* login_then_flow_one_account: from the launch to the login detection. *)

\* with SB(uc=True, locale="en", test=True) as sb
Launch ==
    /\ pc = "launch"
    /\ \E r \in {"ok", "raise"} :
          IF r = "ok"
          THEN /\ browser' = browser + 1
               /\ pc' = "open"
               /\ UNCHANGED <<s, ret, obs, mainVars>>
          ELSE Raises("webdriver", obs)

\* sb.uc_open_with_reconnect(LOGIN_URL, reconnect_time=5.0)
Open ==
    /\ pc = "open"
    /\ \E r \in {"ok", "raise"} :
          IF r = "ok" THEN Goes("form_wait", s, obs) ELSE Raises("webdriver", obs)

\* The three waits for the form controls; on a timeout the handler reads the
\* current URL (unguarded) and the cookie diagnostic (guarded) and returns.
FormWait ==
    /\ pc = "form_wait"
    /\ \E r \in {"ready", "timeout"}, url \in Urls \cup {Raise} :
          IF r = "ready"
          THEN Goes("fill", s, [obs EXCEPT !.formReady = "yes"])
          ELSE IF url = Raise
          THEN Raises("webdriver", [obs EXCEPT !.formReady = "no"])
          ELSE Returns("FAIL", None, None, FALSE, s, [obs EXCEPT !.formReady = "no"])

\* sb.clear / sb.type on the email and the password input
Fill ==
    /\ pc = "fill"
    /\ \E r \in {"ok", "raise_email", "raise_password"} :
          CASE r = "ok"             -> Goes("captcha_before", s, [obs EXCEPT !.typed = 2])
            [] r = "raise_email"    -> Raises("webdriver", obs)
            [] r = "raise_password" -> Raises("webdriver", [obs EXCEPT !.typed = 1])

\* A helper without its try: an exception of the click leaves the session.
_try_click_captcha_bare(to) ==
    \E r \in {"ok", "raise"} :
        IF r = "ok"
        THEN Goes(to, s, [obs EXCEPT !.captcha = @ + 1])
        ELSE Raises("webdriver", [obs EXCEPT !.captcha = @ + 1])

\* _try_click_captcha: the click raises or not, the flow goes on either way.
_try_click_captcha(to) ==
    \E r \in {"ok", "raise"} : Goes(to, s, [obs EXCEPT !.captcha = @ + 1])

CaptchaBefore == pc = "captcha_before" /\ _try_click_captcha("submit")

\* sb.click(SUBMIT_SEL); sb.wait_for_element_visible("body", timeout=30)
Submit ==
    /\ pc = "submit"
    /\ \E r \in {"ok", "click_raise", "body_timeout"} :
          CASE r = "ok"           -> Goes("captcha_after", s, [obs EXCEPT !.submits = @ + 1])
            [] r = "click_raise"  -> Raises("webdriver", obs)
            [] r = "body_timeout" -> Raises("timeout", [obs EXCEPT !.submits = @ + 1])

CaptchaAfter == pc = "captcha_after" /\ _try_click_captcha("diag")

\* has_cf = _has_cf_clearance(sb) never raises; sb.get_current_url() may.
Diag ==
    /\ pc = "diag"
    /\ \E url \in Urls \cup {Raise} :
          IF url = Raise THEN Raises("webdriver", obs) ELSE Goes("detect", s, obs)

\* A detector with both checks under one try: an exception in the welcome
\* check ends the poll.
_is_logged_in_one_try(h1, text, lo) ==
    LET read         == h1 = "visible" /\ text # Raise
        welcome_text == IF read THEN Strip(text) ELSE None
    IN  IF h1 = "raise" \/ (h1 = "visible" /\ text = Raise)
        THEN [logged_in |-> FALSE, welcome_text |-> None, asked |-> {"welcome"}]
        ELSE IF read /\ Contains(Lower(welcome_text), WelcomeMarker)
        THEN [logged_in |-> TRUE, welcome_text |-> welcome_text, asked |-> {"welcome"}]
        ELSE [logged_in |-> lo = "visible", welcome_text |-> welcome_text,
              asked |-> {"welcome", "logout"}]

\* _is_logged_in on the browser's answers: is h1.hero-title visible, its text,
\* is the logout control visible.  asked: the signals it looked at.
_is_logged_in(h1, text, lo) ==
    LET read         == h1 = "visible" /\ text # Raise
        welcome_text == IF read THEN Strip(text) ELSE None
    IN  IF read /\ Contains(Lower(welcome_text), WelcomeMarker)
        THEN [logged_in |-> TRUE, welcome_text |-> welcome_text, asked |-> {"welcome"}]
        ELSE [logged_in |-> lo = "visible", welcome_text |-> welcome_text,
              asked |-> {"welcome", "logout"}]

\* What the page showed in one poll: the heading with the marker in it, or the
\* logout control.
SignalShown(h1, text, lo) ==
    (h1 = "visible" /\ text = TextWelcome) \/ lo = "visible"

\* The first signal check of one poll, if a browser call raised in it.
ChecksRaised(h1, text, lo) ==
    IF h1 = "raise" \/ (h1 = "visible" /\ text = Raise) THEN {"welcome"} ELSE {}

\* One turn of the detection loop, with the test that follows the loop.  The
\* loop counter is not read after the break.
Poll ==
    /\ pc = "detect"
    /\ s.polls < PollBudget
    /\ \E h1 \in {"visible", "hidden", "raise"}, text \in Texts \cup {Raise},
          lo \in {"visible", "hidden", "raise"} :
          LET r      == _is_logged_in(h1, text, lo)
              locals == [s EXCEPT !.logged_in = r.logged_in,
                                  !.welcome_text = r.welcome_text,
                                  !.polls = @ + 1]
              seen   == [obs EXCEPT !.raised = ChecksRaised(h1, text, lo),
                                    !.asked = r.asked,
                                    !.seen = @ \/ SignalShown(h1, text, lo)]
          IN  \* the text is asked for only when the heading is visible
              /\ (h1 # "visible" => text = TextOther)
              /\ IF r.logged_in
                 THEN Goes("find_card", [locals EXCEPT !.polls = 0], seen)
                 ELSE IF locals.polls < PollBudget
                 THEN Goes("detect", locals, seen)
                 ELSE Returns("FAIL", r.welcome_text, None, FALSE, locals, seen)

-----------------------------------------------------------------------------
(* _find_server_id_and_go_server_page *)

\* A way back that hands the tour's result on under status "FAIL".
FinishAsFailure(locals, seenObs) ==
    Returns("FAIL", locals.welcome_text, locals.server_id, locals.logout_ok,
            locals, seenObs)

\* The way back from _post_login_visit_then_logout: the last read of the
\* current URL is guarded, then the session returns "OK".
Finish(locals, seenObs) ==
    Returns("OK", locals.welcome_text, locals.server_id, locals.logout_ok,
            locals, seenObs)

\* screenshot(sb, name), then the return that follows it at every call site
\* of the post-login tour: (server_id, False), which the session hands on as
\* status "OK".  save_screenshot is a browser call and may raise.
Screenshot ==
    /\ pc = "screenshot"
    /\ \E r \in {"ok", "raise"} :
          IF r = "ok"
          THEN Finish([s EXCEPT !.logout_ok = FALSE],
                      [obs EXCEPT !.shots = Append(@, s.tag)])
          ELSE Raises("webdriver", obs)

Shoot(tag, locals, seenObs) == Goes("screenshot", [locals EXCEPT !.tag = tag], seenObs)

\* The wait for the server card, the read of its href, the extraction.
FindCard ==
    /\ pc = "find_card"
    /\ LET locals == s
           seen   == [obs EXCEPT !.raised = {}, !.asked = {}]
       IN \E card \in {"visible", "timeout"}, got \in Hrefs \cup {Raise} :
          IF card = "timeout"
          THEN Shoot("server_card_not_found", locals, seen)
          ELSE LET href      == IF got = Raise THEN <<>> ELSE got
                   server_id == _extract_server_id_from_href(href)
               IN  IF server_id = None
                   THEN Shoot("server_id_extract_failed", locals, seen)
                   ELSE Goes("click_card", [locals EXCEPT !.server_id = server_id], seen)

\* sb.scroll_to, sb.click on the card, the wait for "Now managing".
ClickCard ==
    /\ pc = "click_card"
    /\ \E r \in {"ok", "scroll_raise", "click_raise", "marker_timeout"} :
          IF r = "ok"
          THEN Goes("dwell_server", s, [obs EXCEPT !.clickPath = "entered"])
          ELSE Goes("direct_open", s, [obs EXCEPT !.clickPath = "failed"])

\* The fallback: sb.open(SERVER_URL_TPL...), the wait for "Now managing".
DirectOpen ==
    /\ pc = "direct_open"
    /\ \E r \in {"ok", "open_raise", "marker_timeout"} :
          IF r = "ok"
          THEN Goes("dwell_server", s, [obs EXCEPT !.direct = "entered"])
          ELSE Shoot("goto_server_failed", s, [obs EXCEPT !.direct = "failed"])

-----------------------------------------------------------------------------
(* _post_login_visit_then_logout, after the server page was entered *)

\* stay1 = random.randint(4, 6); time.sleep(stay1)
DwellServer ==
    /\ pc = "dwell_server"
    /\ \E stay1 \in 4..6 : Goes("back_home", [s EXCEPT !.stay = stay1], obs)

\* A return home that goes on to the logout whatever the browser did.
HomeTakenForGranted(r) == TRUE

\* The try around the return home went through without an exception.
HomeReached(r) == r = "ok"

\* sb.open(HOME_URL); sb.wait_for_element_visible("body", timeout=30)
BackHome ==
    /\ pc = "back_home"
    /\ \E r \in {"ok", "open_raise", "body_timeout"} :
          IF HomeReached(r)
          THEN Goes("dwell_home", [s EXCEPT !.stay = 0],
                    [obs EXCEPT !.homeVisits = IF r = "ok" THEN @ + 1 ELSE @])
          ELSE Shoot("back_home_failed", [s EXCEPT !.stay = 0], obs)

\* stay2 = random.randint(3, 5); time.sleep(stay2)
DwellHome ==
    /\ pc = "dwell_home"
    /\ \E stay2 \in 3..5 : Goes("logout_click", [s EXCEPT !.stay = stay2], obs)

\* The wait for the logout control, sb.scroll_to, sb.click(LOGOUT_SEL).
LogoutClick ==
    /\ pc = "logout_click"
    /\ \E r \in {"ok", "wait_timeout", "click_raise"} :
          LET locals == [s EXCEPT !.stay = 0] IN
          CASE r = "ok" ->
                 Goes("logout_body", locals, [obs EXCEPT !.logoutClicks = @ + 1])
            [] r = "wait_timeout" ->
                 Shoot("logout_click_failed", locals, obs)
            [] r = "click_raise" ->
                 Shoot("logout_click_failed", locals, [obs EXCEPT !.logoutClicks = @ + 1])

\* sb.wait_for_element_visible("body", timeout=30) after the click: unguarded.
LogoutBody ==
    /\ pc = "logout_body"
    /\ \E r \in {"ok", "timeout"} :
          IF r = "ok" THEN Goes("logout_verify", s, obs) ELSE Raises("timeout", obs)

\* The verdict on the logout from the browser's answers: the current URL, is
\* the email input visible, is the password input visible.
LogoutVerified(url, em, pw) ==
    LET url_now == IF url = Raise THEN <<>> ELSE Lower(url) IN
    \/ Contains(url_now, LoginMarker)
    \/ (em = "visible" /\ pw = "visible")

\* What the page showed after the logout click: the login URL, the login form
\* (both inputs), or neither.
PageAfterLogout(url, em, pw) ==
    IF url = UrlLogin THEN "login_url"
    ELSE IF em = "visible" /\ pw = "visible" THEN "login_form"
    ELSE "neither"

LogoutVerify ==
    /\ pc = "logout_verify"
    /\ \E url \in Urls \cup {Raise}, em \in {"visible", "hidden", "raise"},
          pw \in {"visible", "hidden", "raise"} :
          \* the password input is asked about only after a visible email input
          /\ (em # "visible" => pw = "hidden")
          /\ IF LogoutVerified(url, em, pw)
             THEN Finish([s EXCEPT !.logout_ok = TRUE],
                         [obs EXCEPT !.verify = PageAfterLogout(url, em, pw)])
             ELSE Shoot("logout_verify_failed", s,
                        [obs EXCEPT !.verify = PageAfterLogout(url, em, pw)])

-----------------------------------------------------------------------------
(* tg_send *)

\* A notifier that gives up only when both are blank.
TgPostsEither(token, chat_id) == Strip(token) # <<>> \/ Strip(chat_id) # <<>>

\* if not token or not chat_id: return
TgPosts(token, chat_id) == Strip(token) # <<>> /\ Strip(chat_id) # <<>>

\* The requests.post calls made so far, after tg_send(text, token, chat_id): a
\* call is kept as the message's account and kind and the destination.  What becomes of the post (delivered, refused, network down) is caught
\* inside tg_send and changes nothing in the program.
tg_send(text, token, chat_id, posts) ==
    IF TgPosts(token, chat_id)
    THEN Append(posts, [acct |-> text.acct, kind |-> text.kind,
                        token |-> Strip(token), chat |-> Strip(chat_id)])
    ELSE posts

-----------------------------------------------------------------------------
(* main(): what follows the session. *)

\* A tally that counts a logout for every "OK", verified or not.
TallyEveryLogout(r, c) ==
    IF r.status = "OK"
    THEN [ok |-> c.ok + 1, fail |-> c.fail, logout |-> c.logout + 1]
    ELSE [ok |-> c.ok, fail |-> c.fail + 1, logout |-> c.logout]

\* if status == "OK": ok += 1; if logout_ok: logout_ok_count += 1 / else: fail += 1
Tally(r, c) ==
    IF r.status = "OK"
    THEN [ok |-> c.ok + 1, fail |-> c.fail,
          logout |-> IF r.logout_ok THEN c.logout + 1 ELSE c.logout]
    ELSE [ok |-> c.ok, fail |-> c.fail + 1, logout |-> c.logout]

\* The message built from the tuple the session returned.
StatusMessage(r, acct) ==
    [acct |-> acct, kind |-> IF r.status = "OK" THEN "ok" ELSE "fail",
     logout |-> r.logout_ok, error |-> ""]

\* An error message that leaves the exception's text out.
ErrorMessageBare(r, acct) ==
    [acct |-> acct, kind |-> "exc", logout |-> FALSE, error |-> ""]

\* The message built from the exception the session raised.
ErrorMessage(r, acct) ==
    [acct |-> acct, kind |-> "exc", logout |-> FALSE, error |-> r.error]

\* print(msg); tg_send(msg, tg_token, tg_chat)
Tell(text) ==
    /\ msg' = text
    /\ reports' = Append(reports, [acct |-> text.acct, kind |-> text.kind])
    /\ log' = tg_send(text, accounts[i].tg_token, accounts[i].tg_chat, log)

\* The try body after the session has returned: count, print, tg_send.  What
\* the session left behind besides its tuple is gone.
Report ==
    /\ pc = "returned"
    /\ LET c == Tally(ret, [ok |-> ok, fail |-> fail, logout |-> logout_ok_count]) IN
           /\ ok' = c.ok
           /\ fail' = c.fail
           /\ logout_ok_count' = c.logout
    /\ Tell(StatusMessage(ret, i))
    /\ s' = NoLocals
    /\ obs' = NoObs
    /\ pc' = "cooldown"
    /\ UNCHANGED <<env, accounts, cfgError, display, i, tg_dests, browser, ret,
                   pending, slept>>

\* An except clause that forgets to count.
FailForgotten(n) == n

\* The failure count after an exception: fail += 1
FailAfterException(n) == n + 1

\* except Exception as e: count, print, tg_send.
Except ==
    /\ pc = "except"
    /\ fail' = FailAfterException(fail)
    /\ Tell(ErrorMessage(ret, i))
    /\ s' = NoLocals
    /\ obs' = NoObs
    /\ pc' = "cooldown"
    /\ UNCHANGED <<env, accounts, cfgError, display, i, ok, logout_ok_count, tg_dests,
                   browser, ret, pending, slept>>

\* A cooldown that sleeps twice after every account, the last one included.
PausesAlwaysTwice(acct, n) == <<<<acct, Cooldown>>, <<acct, Cooldown>>>>

\* time.sleep(5); if i < len(accounts): time.sleep(5).  The tuple or exception
\* of the finished session and the message are dead from here on.
Pauses(acct, n) ==
    IF acct < n THEN <<<<acct, Cooldown>>, <<acct, Cooldown>>>> ELSE <<<<acct, Cooldown>>>>

CooldownStep ==
    /\ pc = "cooldown"
    /\ slept' = slept \o Pauses(i, Len(accounts))
    /\ ret' = NoReturn
    /\ msg' = NoMessage
    /\ pc' = "loop"
    /\ UNCHANGED <<env, accounts, cfgError, display, i, ok, fail, logout_ok_count,
                   tg_dests, browser, s, obs, reports, log, pending>>

\* sorted(tg_dests): tuples of strings in lexicographic order.
Alphabet == <<" ", "#", ",", "/", "0", "1", "2", "3", "4", "5", "6", "7", "8", "9",
              "?", "B", "H", "L", "W", "a", "b", "c", "d", "e", "g", "h", "i", "k",
              "l", "m", "n", "o", "p", "r", "s", "t", "u", "v", "w", "x">>

Rank(c) == CHOOSE k \in 1..Len(Alphabet) : Alphabet[k] = c

RECURSIVE TextLess(_, _)
TextLess(a, b) ==
    IF b = <<>> THEN FALSE
    ELSE IF a = <<>> THEN TRUE
    ELSE IF Head(a) = Head(b) THEN TextLess(Tail(a), Tail(b))
    ELSE Rank(Head(a)) < Rank(Head(b))

PairLess(p, q) == TextLess(p[1], q[1]) \/ (p[1] = q[1] /\ TextLess(p[2], q[2]))

RECURSIVE Sorted(_)
Sorted(dests) ==
    IF dests = {} THEN <<>>
    ELSE LET m == CHOOSE m \in dests : \A o \in dests \ {m} : PairLess(m, o)
         IN  <<m>> \o Sorted(dests \ {m})

\* summary = ...; print(summary); the destinations to serve, in order.
SummaryDests(dests) == Sorted(dests)

SummaryMessage == [acct |-> 0, kind |-> "summary", logout |-> FALSE, error |-> ""]

Summary ==
    /\ pc = "loop"
    /\ i = Len(accounts)
    /\ msg' = SummaryMessage
    /\ reports' = Append(reports, [acct |-> 0, kind |-> "summary"])
    /\ pending' = SummaryDests(tg_dests)
    /\ pc' = "summary_send"
    /\ UNCHANGED <<env, accounts, cfgError, display, i, ok, fail, logout_ok_count,
                   tg_dests, browser, s, ret, obs, log, slept>>

\* for token, chat in sorted(tg_dests): tg_send(summary, token, chat)
SendSummary ==
    /\ pc = "summary_send"
    /\ pending # <<>>
    /\ log' = tg_send(msg, Head(pending)[1], Head(pending)[2], log)
    /\ pending' = Tail(pending)
    /\ UNCHANGED <<env, pc, accounts, cfgError, display, i, ok, fail, logout_ok_count,
                   tg_dests, browser, s, ret, obs, msg, reports, slept>>

\* A finally clause that leaves the display running.
LeftRunning(d) == d

\* if display: display.stop()
Stopped(d) == IF d = "up" THEN "stopped" ELSE d

\* finally: if display: display.stop()
Finally ==
    /\ pc = "summary_send"
    /\ pending = <<>>
    /\ display' = Stopped(display)
    /\ pc' = "done"
    /\ UNCHANGED <<env, accounts, cfgError, i, ok, fail, logout_ok_count, tg_dests,
                   browser, s, ret, obs, msg, reports, log, pending, slept>>

-----------------------------------------------------------------------------

Next ==
    \/ Parse
    \/ SetupXvfb
    \/ LoopHead
    \/ Launch
    \/ Open
    \/ FormWait
    \/ Fill
    \/ CaptchaBefore
    \/ Submit
    \/ CaptchaAfter
    \/ Diag
    \/ Poll
    \/ FindCard
    \/ ClickCard
    \/ DirectOpen
    \/ Screenshot
    \/ DwellServer
    \/ BackHome
    \/ DwellHome
    \/ LogoutClick
    \/ LogoutBody
    \/ LogoutVerify
    \/ Report
    \/ Except
    \/ CooldownStep
    \/ Summary
    \/ SendSummary
    \/ Finally

Spec == Init /\ [][Next]_vars

\* Once the descriptor is parsed the single thread of control keeps running:
\* every call it makes returns or raises within its bounded timeout, so a step
\* that can be taken is taken.
Running == pc # "start" /\ Next

FairSpec == Spec /\ WF_vars(Running)

-----------------------------------------------------------------------------
(* main() when an exception escapes the for loop: `except Exception` does  *)
(* not catch a KeyboardInterrupt or SystemExit, and what is raised outside *)
(* the inner try (the prints at the head of the loop, the except clause    *)
(* itself, the summary) is not caught at all.                              *)

\* The positions inside the outer try of main.
TryBody == {"loop", "launch", "open", "form_wait", "fill", "captcha_before",
            "submit", "captcha_after", "diag", "detect", "find_card",
            "click_card", "direct_open", "screenshot", "dwell_server",
            "back_home", "dwell_home", "logout_click", "logout_body",
            "logout_verify", "returned", "except", "cooldown", "summary_send"}

\* The exception unwinds the frames between its origin and main's try: the
\* with block of a running session quits its browser on the way.
Escape ==
    /\ pc \in TryBody
    /\ pc' = "unwind"
    /\ browser' = Released(browser)
    /\ s' = NoLocals
    /\ ret' = NoReturn
    /\ obs' = NoObs
    /\ msg' = NoMessage
    /\ pending' = <<>>
    /\ UNCHANGED <<env, accounts, cfgError, display, i, ok, fail, logout_ok_count,
                   tg_dests, reports, log, slept>>

\* finally: if display: display.stop(); then the exception leaves main.
FinallyEscaped ==
    /\ pc = "unwind"
    /\ display' = Stopped(display)
    /\ pc' = "aborted"
    /\ UNCHANGED <<env, accounts, cfgError, i, ok, fail, logout_ok_count, tg_dests,
                   browser, s, ret, obs, msg, reports, log, pending, slept>>

NextEscape ==
    \/ Next
    \/ Escape
    \/ FinallyEscaped

SpecEscape == Init /\ [][NextEscape]_vars

-----------------------------------------------------------------------------
(* What the claims speak of. *)

Size(q, Test(_)) == Cardinality({k \in 1..Len(q) : Test(q[k])})

\* The accounts whose outcome main has counted and reported.
Processed ==
    IF pc \in {"cooldown", "loop", "summary_send", "done"} THEN i
    ELSE IF i > 0 THEN i - 1 ELSE 0

IsAccountReport(m) == m.kind \in {"ok", "fail", "exc"}
ReportsOf(k) == Size(reports, LAMBDA m : m.acct = k /\ IsAccountReport(m))
PostsOf(k) == Size(log, LAMBDA e : e.acct = k /\ e.kind # "summary")

AfterLoop == pc \in {"summary_send", "done"}

\* The session of the current account is over and main has not looked at
\* what it handed back.
SessionOver == pc \in {"returned", "except"}

\* Main has counted and reported what the session handed back.
Counted(kind) ==
    /\ msg.kind = kind
    /\ msg.acct = i
    /\ reports[Len(reports)] = [acct |-> i, kind |-> kind]

-----------------------------------------------------------------------------
\* C1: after the k-th account has been processed succeeded + failed = k, one
\* outcome per account has been folded into the counters, and once the loop
\* is left both equal the number N of parsed accounts, whatever the browser
\* did (returned, timed out, raised).
C1_CountersMatchProcessed ==
    /\ ok + fail = Processed
    /\ Size(reports, IsAccountReport) = Processed
    /\ \A k \in 1..Len(accounts) : ReportsOf(k) = IF k <= Processed THEN 1 ELSE 0
    /\ AfterLoop => ok + fail = Len(accounts)

C1_Witness ==
    /\ pc = "done"
    /\ Len(accounts) = 2
    /\ ok = 1
    /\ fail = 1
    /\ \E k \in 1..Len(reports) : reports[k].kind = "exc"

-----------------------------------------------------------------------------
\* C2: logoutSucceeded <= succeeded in every state, and logout_ok_count grows
\* only by one, only in the step in which ok grows by one, and only when the
\* session returned status "OK" with logout_ok true.
C2_LogoutWithinSucceeded ==
    /\ [](logout_ok_count <= ok)
    /\ [][logout_ok_count' # logout_ok_count =>
            /\ logout_ok_count' = logout_ok_count + 1
            /\ ok' = ok + 1
            /\ ret.kind = "tuple" /\ ret.status = "OK" /\ ret.logout_ok]_vars

C2_Witness ==
    /\ pc = "done"
    /\ ok = 2
    /\ logout_ok_count = 1

-----------------------------------------------------------------------------
\* C3: when the session of account i raises, main counts the account as
\* failed and not as succeeded, builds a message that carries the exception's
\* text, hands it to tg_send with that account's own token and chat (a post
\* is made exactly when both are non-blank), and goes on: every later account
\* is attempted and the summary is printed.
C3_ExceptionIsCountedAndBatchGoesOn ==
    /\ ok = Size(reports, LAMBDA m : m.kind = "ok")
    /\ fail = Size(reports, LAMBDA m : m.kind \in {"fail", "exc"})
    /\ (pc = "cooldown" /\ ret.kind = "exc") =>
          /\ ret.error # ""
          /\ msg = [acct |-> i, kind |-> "exc", logout |-> FALSE, error |-> ret.error]
          /\ reports[Len(reports)] = [acct |-> i, kind |-> "exc"]
          /\ IF Strip(accounts[i].tg_token) # <<>> /\ Strip(accounts[i].tg_chat) # <<>>
             THEN /\ log # <<>>
                  /\ log[Len(log)] = [acct |-> i, kind |-> "exc",
                                      token |-> Strip(accounts[i].tg_token),
                                      chat |-> Strip(accounts[i].tg_chat)]
                  /\ PostsOf(i) = 1
             ELSE PostsOf(i) = 0
    /\ pc \in {"except", "cooldown"} => ENABLED Next
    /\ (pc = "loop" /\ i < Len(accounts)) => ENABLED LoopHead
    /\ (pc = "loop" /\ i = Len(accounts)) => ENABLED Summary
    /\ AfterLoop =>
          /\ \A k \in 1..Len(accounts) : ReportsOf(k) = 1
          /\ Size(reports, LAMBDA m : m.kind = "summary") = 1

C3_Witness ==
    /\ pc = "done"
    /\ Len(accounts) = 2
    /\ reports[1] = [acct |-> 1, kind |-> "exc"]
    /\ reports[2] = [acct |-> 2, kind |-> "ok"]
    /\ \E k \in 1..Len(log) : log[k].acct = 1 /\ log[k].kind = "exc"

-----------------------------------------------------------------------------
\* C4: a descriptor that is missing or blank, holds no account line, or holds
\* a line (neither blank nor a comment) whose field count is not 2 or 4 or
\* whose email or password is empty, ends main in the configuration error:
\* no account list, no virtual display, no browser, no session, no message,
\* whatever valid lines come before the offending one.

IsBlank(line) == \A k \in 1..Len(line) : line[k] = " "

IsComment(line) ==
    \E k \in 1..Len(line) : line[k] = "#" /\ \A j \in 1..(k - 1) : line[j] = " "

Commas(line) == {k \in 1..Len(line) : line[k] = ","}

\* The n-th field of the line is blank: nothing but blanks between the commas.
FieldBlank(line, n) ==
    \A k \in 1..Len(line) :
        (line[k] # "," /\ Cardinality({c \in Commas(line) : c < k}) = n - 1)
            => line[k] = " "

Offending(line) ==
    /\ ~ IsBlank(line)
    /\ ~ IsComment(line)
    /\ \/ Cardinality(Commas(line)) + 1 \notin {2, 4}
       \/ FieldBlank(line, 1)
       \/ FieldBlank(line, 2)

BadDescriptor(e) ==
    \/ ~ e.set
    \/ \A k \in 1..Len(e.lines) : IsBlank(e.lines[k]) \/ IsComment(e.lines[k])
    \/ \E k \in 1..Len(e.lines) : Offending(e.lines[k])

\* The descriptor is read once and never changes, so the claim comes to: the
\* parse step on a bad descriptor ends in the configuration error, and in the
\* configuration error nothing has been started and nothing more happens.
C4_BadDescriptorStopsEverything ==
    /\ [][env' = env]_vars
    /\ [][(pc = "start" /\ BadDescriptor(env)) =>
            (pc' = "config_error" /\ cfgError'.kind # "none")]_vars
    /\ [](pc = "config_error" =>
            /\ accounts = <<>>
            /\ display = "unset"
            /\ browser = 0
            /\ i = 0
            /\ reports = <<>>
            /\ log = <<>>
            /\ ~ ENABLED Next)

C4_Witness ==
    /\ pc = "config_error"
    /\ env.lines = <<Line4, Line3>>
    /\ cfgError.kind = "format"

-----------------------------------------------------------------------------
\* C5: once the last account has been processed, the summary is posted
\* exactly once to every distinct (token, chat) pair an account of the batch
\* carries (a pair being a token and a chat, both non-blank), however many
\* accounts share it and whatever their outcomes; it is posted nowhere else,
\* and never before the last account is done.

HasDest(a) == ~ IsBlank(a.tg_token) /\ ~ IsBlank(a.tg_chat)

DestsCarried ==
    {<<accounts[k].tg_token, accounts[k].tg_chat>> :
        k \in {j \in 1..Len(accounts) : HasDest(accounts[j])}}

SummaryPosts(d) ==
    Size(log, LAMBDA e : e.kind = "summary" /\ <<e.token, e.chat>> = d)

C5_OneSummaryPerDestination ==
    /\ pc = "done" => \A d \in DestsCarried : SummaryPosts(d) = 1
    /\ \A k \in 1..Len(log) :
          log[k].kind = "summary" =>
             /\ <<log[k].token, log[k].chat>> \in DestsCarried
             /\ SummaryPosts(<<log[k].token, log[k].chat>>) = 1
             /\ AfterLoop
             /\ Processed = Len(accounts)
             /\ \A j \in k..Len(log) : log[j].kind = "summary"

C5_Witness ==
    /\ pc = "done"
    /\ env.lines = <<Line4, Line4>>
    /\ fail = 2
    /\ Size(log, LAMBDA e : e.kind = "summary") = 1
    /\ Size(log, LAMBDA e : e.kind # "summary") = 2

-----------------------------------------------------------------------------
\* C6: every account gets exactly one status message, built after its session
\* has ended and before the next session begins; the message is posted only
\* when the account's own token and chat are both non-blank, then once and to
\* that pair only; for an account read from a 2-field line nothing is posted.

AccountLines == SelectSeq(env.lines, LAMBDA l : ~ IsBlank(l) /\ ~ IsComment(l))

FromTwoFields(k) == Cardinality(Commas(AccountLines[k])) = 1

C6_OneStatusMessagePerAccount ==
    /\ \A k \in 1..Len(accounts) :
          /\ ReportsOf(k) = IF k <= Processed THEN 1 ELSE 0
          /\ PostsOf(k) = IF k <= Processed /\ HasDest(accounts[k]) THEN 1 ELSE 0
          /\ PostsOf(k) # 0 => ~ FromTwoFields(k)
    /\ \A k \in 1..Len(log) :
          log[k].kind # "summary" =>
             /\ log[k].acct \in 1..Processed
             /\ log[k].token = accounts[log[k].acct].tg_token
             /\ log[k].chat = accounts[log[k].acct].tg_chat
             /\ ~ IsBlank(log[k].token)
             /\ ~ IsBlank(log[k].chat)

C6_Witness ==
    /\ pc = "done"
    /\ env.lines = <<Line2, Line4>>
    /\ ReportsOf(1) = 1
    /\ PostsOf(1) = 0
    /\ PostsOf(2) = 1

-----------------------------------------------------------------------------
\* C7: after the form is submitted the detector is polled at most 10 times;
\* the first poll in which the page shows the welcome heading with "welcome
\* back" in it (in any case) or the logout control ends the polling and the
\* session goes on to the post-login step; the session returns "FAIL", with
\* no server id and logout_ok false, exactly when none of 10 polls saw either;
\* an exception in the welcome check leaves the logout check to be made in
\* the same poll.
C7_LoginDetection ==
    /\ s.polls <= PollBudget
    /\ pc = "detect" => (~ obs.seen /\ s.polls < PollBudget /\ obs.submits = 1)
    /\ pc = "find_card" => (obs.seen /\ s.logged_in)
    /\ (pc = "returned" /\ obs.submits > 0) =>
          /\ ret.status = "FAIL" <=> (s.polls = PollBudget /\ ~ obs.seen)
          /\ ret.status = "FAIL" => (ret.server_id = None /\ ~ ret.logout_ok)
          /\ ret.status = "OK" <=> obs.seen
    /\ (s.polls = PollBudget /\ ~ obs.seen) => (pc = "returned" /\ ret.status = "FAIL")
    /\ (pc = "cooldown" /\ ret.kind = "tuple" /\ ret.status = "FAIL") => Counted("fail")
    /\ "welcome" \in obs.raised => "logout" \in obs.asked

C7_Witness ==
    /\ pc = "returned"
    /\ ret.status = "FAIL"
    /\ s.polls = PollBudget
    /\ obs.raised = {"welcome"}
    /\ obs.asked = {"welcome", "logout"}

-----------------------------------------------------------------------------
\* C8: once login was detected, a logout that cannot be verified (after the
\* logout click the page shows neither the login URL nor the login form) does
\* not downgrade the account: the session returns "OK" with logout_ok false
\* and main counts the account as succeeded.
C8_UnverifiedLogoutKeepsSuccess ==
    /\ (pc = "cooldown" /\ ret.kind = "tuple" /\ ret.status = "OK") => Counted("ok")
    /\ (obs.verify = "neither" /\ SessionOver) =>
        /\ ret.kind = "tuple"
        /\ ret.status = "OK"
        /\ ~ ret.logout_ok
        /\ ENABLED Report

-----------------------------------------------------------------------------
\* C9: when the form controls never become visible, the session ends in
\* failure (it returns "FAIL", or it raises and main records the failure),
\* with no welcome text, no server id, logout_ok false, exactly one
\* screenshot, no input typed, no submit click, and nothing is posted for an
\* account without notify fields.
C9_FormNeverReady ==
    /\ (obs.formReady = "no" /\ SessionOver) =>
          /\ ret.kind = "tuple" => ret.status = "FAIL"
          /\ ret.welcome_text = None
          /\ ret.server_id = None
          /\ ~ ret.logout_ok
          /\ Len(obs.shots) = 1
          /\ obs.typed = 0
          /\ obs.submits = 0
    /\ (pc = "cooldown" /\ ret.kind = "tuple" /\ ret.status = "FAIL") =>
          msg.kind = "fail" /\ ok + fail = i
    /\ (pc = "cooldown" /\ ret.kind = "exc") => msg.kind = "exc" /\ ok + fail = i
    /\ (pc = "cooldown" /\ ~ HasDest(accounts[i])) => PostsOf(i) = 0

-----------------------------------------------------------------------------
\* C10: with an identifier extracted, the direct open is attempted exactly
\* when the click path failed; the tour (dwell, home, logout) runs only after
\* one of the two paths reached the marker; when both fail, one screenshot is
\* taken, the step reports not entered with the identifier kept, and the
\* account stays "OK".

InTour == pc \in {"dwell_server", "back_home", "dwell_home", "logout_click",
                  "logout_body", "logout_verify"}

C10_ClickThenDirectOpen ==
    /\ (pc = "direct_open" \/ obs.direct # "none") <=> obs.clickPath = "failed"
    /\ obs.clickPath # "none" => s.server_id # None
    /\ InTour => (obs.clickPath = "entered" \/ obs.direct = "entered")
    /\ (obs.direct = "failed" /\ SessionOver) =>
          /\ Len(obs.shots) = 1
          /\ ret.kind = "tuple"
          /\ ret.status = "OK"
          /\ ret.server_id = s.server_id
          /\ ret.server_id # None
          /\ ~ ret.logout_ok
          /\ ENABLED Report

-----------------------------------------------------------------------------
\* C11: at most one browser is live at any moment; a browser is live only
\* while its account's session is inside the with block, so on every way out
\* of the session (form not ready, login not detected, the normal return, any
\* exception) it is gone before main handles the outcome, before the cooldown
\* and before the next account's browser is acquired.

InSession == pc \in {"open", "form_wait", "fill", "captcha_before", "submit",
                     "captcha_after", "diag", "detect", "find_card", "click_card",
                     "direct_open", "screenshot", "dwell_server", "back_home",
                     "dwell_home", "logout_click", "logout_body", "logout_verify"}

C11_OneLiveBrowser ==
    /\ browser \in {0, 1}
    /\ browser = 1 <=> InSession
    /\ InSession => i \in 1..Len(accounts)

C11_Witness ==
    /\ pc = "open"
    /\ browser = 1
    /\ i = 2
    /\ reports = <<[acct |-> 1, kind |-> "exc"]>>

-----------------------------------------------------------------------------
\* C12: every account the parser produces has a non-empty email and a
\* non-empty password, and its token and chat are both non-empty or both
\* empty, for every accepted line, 4-field lines with one blank notify field
\* included.
C12_AccountsWellFormed ==
    \A k \in 1..Len(accounts) :
        /\ accounts[k].email # <<>>
        /\ accounts[k].password # <<>>
        /\ accounts[k].tg_token = <<>> <=> accounts[k].tg_chat = <<>>

-----------------------------------------------------------------------------
\* C13: a bounded wait of the session that times out is handled inside the
\* session: no exception that main records as a script error comes from a
\* wait timeout, and a session that ends on a timed-out wait returns a tuple
\* with a screenshot taken (resource link, page marker, body after the return
\* home, logout control).  The form controls' wait is the matter of C9.
C13_WaitTimeoutsStayInside ==
    /\ ret.kind = "exc" => ret.error # "timeout"
    /\ (pc = "cooldown" /\ msg.kind = "exc") => msg.error # "timeout"
    /\ (pc = "returned" /\ s.tag # "") => obs.shots = <<s.tag>>

-----------------------------------------------------------------------------
\* C14: after every account, whatever its outcome, main sleeps 5 units once,
\* and a second time exactly when another account remains: 10 units lie
\* between consecutive sessions, 5 between the last session and the summary,
\* and 10*N - 5 in all for N accounts.

\* The accounts whose cooldown is over.
Cooled ==
    IF pc \in {"loop", "summary_send", "done"} THEN i
    ELSE IF i > 0 THEN i - 1 ELSE 0

PausesOf(k) == Size(slept, LAMBDA e : e[1] = k)

C14_CooldownPerAccount ==
    /\ \A k \in 1..Len(slept) : slept[k][2] = 5
    /\ \A k \in 1..Len(accounts) :
          PausesOf(k) = IF k > Cooled THEN 0
                        ELSE IF k < Len(accounts) THEN 2 ELSE 1
    /\ \A k \in 1..(Len(slept) - 1) : slept[k][1] <= slept[k + 1][1]
    /\ InSession => 5 * PausesOf(i - 1) = IF i = 1 THEN 0 ELSE 10
    /\ AfterLoop => /\ 5 * PausesOf(Len(accounts)) = 5
                    /\ 5 * Len(slept) = 10 * Len(accounts) - 5

C14_Witness ==
    /\ pc = "done"
    /\ Len(accounts) = 2
    /\ reports[1].kind = "exc"
    /\ reports[2].kind = "fail"
    /\ slept = <<<<1, 5>>, <<1, 5>>, <<2, 5>>>>

-----------------------------------------------------------------------------
\* C15, as stated: every session that passed the form-ready wait has invoked
\* the challenge-bypass helper exactly twice by the time it ends, and a
\* session that failed the wait has invoked it zero times.
C15_CaptchaTwiceAfterFormReady ==
    SessionOver =>
        obs.captcha = IF obs.formReady = "yes" THEN 2 ELSE 0

\* C15, amended: the helper is invoked once between the filling of both
\* fields and the submit click, and once between the body wait after the
\* submit and the first poll, so every session that reaches the login
\* detection (and every session that returns a tuple after a ready form) has
\* invoked it exactly twice; a session that an exception ends while filling
\* has invoked it zero times, one that an exception ends at the submit click
\* or its body wait once; a session that failed the form-ready wait zero
\* times.  An invocation changes nothing but the count, whether it raises or
\* not: the step after it is the same.
CaptchaStepCountsOnly ==
    pc \in {"captcha_before", "captcha_after"} =>
        /\ pc' = (IF pc = "captcha_before" THEN "submit" ELSE "diag")
        /\ obs' = [obs EXCEPT !.captcha = @ + 1]
        /\ s' = s
        /\ ret' = ret
        /\ browser' = browser

C15_CaptchaTwiceWhenDetectionReached ==
    /\ [](/\ pc \in {"open", "form_wait", "fill"} => obs.captcha = 0
          /\ pc = "captcha_before" =>
                (obs.captcha = 0 /\ obs.typed = 2 /\ obs.submits = 0)
          /\ pc = "submit" => (obs.captcha = 1 /\ obs.submits = 0)
          /\ pc = "captcha_after" => (obs.captcha = 1 /\ obs.submits = 1)
          /\ pc = "diag" => (obs.captcha = 2 /\ s.polls = 0)
          /\ (InSession /\ obs.captcha = 2) => obs.submits = 1
          /\ (pc = "detect" \/ pc = "find_card" \/ pc = "screenshot" \/ InTour
                \/ pc \in {"click_card", "direct_open"}) => obs.captcha = 2
          /\ (SessionOver /\ obs.formReady # "yes") => obs.captcha = 0
          /\ (pc = "returned" /\ obs.formReady = "yes") => obs.captcha = 2
          /\ (SessionOver /\ obs.formReady = "yes" /\ obs.captcha = 0) =>
                (ret.kind = "exc" /\ obs.typed < 2)
          /\ (SessionOver /\ obs.captcha = 1) =>
                (ret.kind = "exc" /\ obs.typed = 2))
    /\ [][CaptchaStepCountsOnly]_vars

C15_Witness ==
    /\ pc = "returned"
    /\ ret.status = "OK"
    /\ ret.logout_ok
    /\ obs.captcha = 2
    /\ obs.submits = 1

-----------------------------------------------------------------------------
\* C16: for a non-empty account list and a browser whose every call returns
\* or raises, the batch terminates: from the moment the descriptor has parsed
\* the run reaches the summary and the end of main; the accounts are attempted
\* in descriptor order, one at a time, each exactly once (a session is
\* launched only from the head of the loop, for the next index, and the
\* account list never changes).

FirstField(line) ==
    LET c == CHOOSE k \in 1..(Len(line) + 1) :
                 /\ k = Len(line) + 1 \/ line[k] = ","
                 /\ \A j \in 1..(k - 1) : line[j] # ","
    IN  SelectSeq(SubSeq(line, 1, c - 1), LAMBDA ch : ch # " ")

AttemptsInOrder ==
    /\ (pc' = "launch" /\ pc # "launch") => (pc = "loop" /\ i' = i + 1)
    /\ i' # i => (i' = i + 1 /\ pc = "loop" /\ pc' = "launch")
    /\ pc # "start" => accounts' = accounts
    /\ pc' = "open" => pc = "launch"

C16_BatchTerminates ==
    /\ (pc = "xvfb") ~> (pc = "done")
    /\ [](pc = "xvfb" =>
            /\ accounts # <<>>
            /\ Len(accounts) = Len(AccountLines)
            /\ \A k \in 1..Len(accounts) :
                  accounts[k].email = FirstField(AccountLines[k]))
    /\ [][AttemptsInOrder]_vars
    /\ [](pc = "done" =>
            /\ i = Len(accounts)
            /\ \A k \in 1..Len(accounts) : ReportsOf(k) = 1
            /\ reports[Len(reports)].kind = "summary")

C16_Witness ==
    /\ pc = "done"
    /\ env.lines = <<Line4, Line2>>
    /\ reports = <<[acct |-> 1, kind |-> "fail"], [acct |-> 2, kind |-> "exc"],
                   [acct |-> 0, kind |-> "summary"]>>

-----------------------------------------------------------------------------
\* C17: when a line is rejected, the line number in the configuration error
\* is the 1-based position, in the descriptor as provided, of the first
\* offending line: blank lines and comment lines before it count, blank lines
\* at the very start of the descriptor included.
C17_ReportedLineIsPosition ==
    cfgError.kind \in {"format", "empty_field"} =>
        /\ cfgError.line \in 1..Len(env.lines)
        /\ Offending(env.lines[cfgError.line])
        /\ \A k \in 1..(cfgError.line - 1) : ~ Offending(env.lines[k])

-----------------------------------------------------------------------------
\* C18: the post-login tour runs in the order enter the server page, dwell,
\* return home, dwell, logout click, logout verification, each step only
\* after all earlier ones succeeded: the logout control is clicked only after
\* the server page was entered and the home page reached, and when the card
\* is absent, no identifier is extracted, the entry fails or the return home
\* fails, the session ends with no logout click issued and logout_ok false.

Entered == obs.clickPath = "entered" \/ obs.direct = "entered"

EndedBeforeLogout ==
    s.tag \in {"server_card_not_found", "server_id_extract_failed",
               "goto_server_failed", "back_home_failed"}

C18_TourInOrder ==
    /\ obs.homeVisits \in {0, 1}
    /\ obs.logoutClicks \in {0, 1}
    /\ obs.homeVisits = 1 => Entered
    /\ obs.logoutClicks = 1 => (Entered /\ obs.homeVisits = 1)
    /\ obs.verify # "none" => obs.logoutClicks = 1
    /\ Entered => obs.seen
    /\ pc = "dwell_server" => (Entered /\ obs.homeVisits = 0)
    /\ pc = "back_home" => (s.stay \in 4..6 /\ obs.homeVisits = 0)
    /\ pc = "dwell_home" => (obs.homeVisits = 1 /\ obs.logoutClicks = 0)
    /\ pc = "logout_click" =>
          (s.stay \in 3..5 /\ obs.homeVisits = 1 /\ obs.logoutClicks = 0)
    /\ pc \in {"logout_body", "logout_verify"} =>
          (obs.logoutClicks = 1 /\ obs.verify = "none")
    /\ ((pc = "screenshot" \/ SessionOver) /\ EndedBeforeLogout) =>
          (obs.logoutClicks = 0 /\ obs.verify = "none" /\ ~ s.logout_ok)
    /\ (SessionOver /\ EndedBeforeLogout) => ~ ret.logout_ok
    /\ (pc = "returned" /\ ret.logout_ok) =>
          (Entered /\ obs.homeVisits = 1 /\ obs.logoutClicks = 1
             /\ obs.verify \in {"login_url", "login_form"})

C18_Witness ==
    /\ pc = "returned"
    /\ s.tag = "back_home_failed"
    /\ obs.direct = "entered"
    /\ obs.logoutClicks = 0
    /\ ret.status = "OK"
    /\ ~ ret.logout_ok

-----------------------------------------------------------------------------
\* C19: every tuple the session returns is consistent: "FAIL" comes with no
\* server id and logout_ok false; logout_ok true comes with "OK" and a server
\* id; a server id is there only when login was detected and the id was
\* extracted from the card's href.
C19_OutcomeConsistent ==
    ret.kind = "tuple" =>
        /\ ret.status \in {"OK", "FAIL"}
        /\ ret.status = "FAIL" => (ret.server_id = None /\ ~ ret.logout_ok)
        /\ ret.logout_ok => (ret.status = "OK" /\ ret.server_id # None)
        /\ ret.server_id # None => ret.status = "OK"
        /\ (pc = "returned" /\ ret.server_id # None) =>
              /\ obs.seen
              /\ s.logged_in
              /\ obs.clickPath # "none"
              /\ ret.server_id = s.server_id
              /\ \E h \in Hrefs : ret.server_id = _extract_server_id_from_href(h)
        /\ (pc = "returned" /\ ret.status = "OK") => obs.seen

C19_Witness ==
    /\ pc = "returned"
    /\ ret.status = "OK"
    /\ ret.server_id = <<"6", "3">>
    /\ ~ ret.logout_ok
    /\ s.tag = "goto_server_failed"

-----------------------------------------------------------------------------
\* C20: the virtual display is started at most once, only after the
\* descriptor has parsed; once up it stays up across all sessions of the
\* batch; if it was started it is stopped exactly once on every way out of
\* the batch loop: after the summary when the loop completes, and also when
\* an exception escapes the loop.

DisplayChangesOnlyAtTheEnds ==
    display' # display =>
        \/ /\ display = "unset"
           /\ pc = "xvfb"
           /\ display' \in {"up", "none"}
        \/ /\ display = "up"
           /\ display' = "stopped"
           /\ \/ pc = "summary_send" /\ pending = <<>> /\ pc' = "done"
              \/ pc = "unwind" /\ pc' = "aborted"

C20_DisplayLifecycle ==
    /\ [][DisplayChangesOnlyAtTheEnds]_vars
    /\ [](pc \in {"start", "config_error", "xvfb"} => display = "unset")
    /\ [](pc = "xvfb" => accounts # <<>>)
    /\ [](pc \in TryBody \cup {"unwind"} => display \in {"up", "none"})
    /\ [](pc \in {"done", "aborted"} => display \in {"stopped", "none"})
    /\ [](pc = "done" => reports[Len(reports)].kind = "summary")
    /\ [][(pc \in TryBody /\ display = "up" /\ pc' \in TryBody) => display' = "up"]_vars

C20_Witness ==
    /\ pc = "aborted"
    /\ display = "stopped"
    /\ i = 2
    /\ Len(reports) = 1

====
